---- MODULE Spec2Model ----
(***************************************************************************)
(* The match orchestrator of ChessMatch---LLMs: run_game                   *)
(* (src/src/game_loop.py) with the shared match state, the persisted state *)
(* file, the live clock tuple and the cancel flag of src/src/game_state.py.*)
(*                                                                         *)
(* Time is counted in whole seconds.  The state is the one run_game has    *)
(* after its set-up (game_loop.py lines 87-122); one action models one     *)
(* step of the turn loop, with every update_state / set_live_remaining /   *)
(* clear_live_remaining call the step makes.                               *)
(*                                                                         *)
(* Specifications: Spec is run_game with cancel requests from outside;     *)
(* SpecClock is the live clock tuple shared by run_game, the ticker        *)
(* thread and the /api/tick readers; SpecStore is the state store          *)
(* (reset_state, set_state_from_dict, update_state) called in any order;   *)
(* SpecParser is parse_llm_response (src/src/response_parser.py) applied   *)
(* to reply texts; SpecApi is the local server (src/api.py): the start and *)
(* reset requests and the threads they run run_game in; SpecTick is the    *)
(* live clock with the /api/tick handler of the Lambda deployment;         *)
(* SpecLive is run_game in a timed match that nobody cancels and whose     *)
(* agent calls all return after at least one second, with the fairness the *)
(* sequential loop gives.                                                  *)
(*                                                                         *)
(* The rules engine (python-chess) is abstracted: a position is the side   *)
(* to move, the moves pushed on the board and the status the board         *)
(* reports; in every position that is not over the same SAN texts are      *)
(* legal, one that keeps the game going and one that mates.                *)
(***************************************************************************)
EXTENDS Integers, Sequences, FiniteSets, TLC

\* ------------------------------------------------------------- bounds
\* Largest max_retries a match is configured with.
MaxRetries == 2
\* Largest number of agent calls modelled in one turn (only an unlimited
\* retry budget reaches it).
MaxAttempts == 3
\* Most segments of a reply text given to the parser.
MaxSegments == 2
\* Most times the parser is applied to one reply text.
MaxParses == 2
\* Most game threads the server starts.
MaxThreads == 2
\* Most start and reset requests the server is sent.
MaxRequests == 4
\* Longest agent call, in seconds.
MaxElapsed == 5
\* Largest time_per_player_seconds a match is configured with.
MaxTime == 2
\* Longest move history a resumed match starts with.
MaxResume == 2

\* ---------------------------------------------------------- constants
\* float("inf"): the retry budget of max_retries = 0 and the remaining time
\* of an untimed match.
Inf == 1000
\* Python's None where the other values are numbers.
NoNumber == -1
\* Python's None where the other values are strings.
None == "None"

White == "White"
Black == "Black"
Sides == {White, Black}
\* white_llm.name and black_llm.name
WhiteName == "WhiteLLM"
BlackName == "BlackLLM"
\* The game_id run_game is called with, and another match's id.
GameId == "g1"
GameIds == {"g1", "g2"}

OtherSide(s) == IF s = White THEN Black ELSE White
NameOf(s) == IF s = White THEN WhiteName ELSE BlackName

\* ------------------------------------------------------ rules engine
QuietMove == "e4"
MateMove == "Qh5#"
IllegalMove == "Ke9"

\* chess.Board: the side to move, the moves pushed, what is_game_over()
\* and outcome() report.
Board(turn, moves, status) == [turn |-> turn, moves |-> moves, status |-> status]

\* ChessEngine.is_game_over
EngineIsGameOver(b) == b.status # "ongoing"

\* ChessEngine.outcome: the termination and the winner (None for a draw).
\* The side to move is the side that is mated.
EngineOutcome(b) ==
  IF b.status = "ongoing" THEN [termination |-> None, winner |-> None]
  ELSE [termination |-> b.status,
        winner |-> IF b.status = "checkmate" THEN OtherSide(b.turn) ELSE None]

\* ChessEngine.get_legal_moves_san
LegalMovesSan(b) == IF EngineIsGameOver(b) THEN {} ELSE {QuietMove, MateMove}

\* ChessEngine.apply_pgn_move: strip, parse_san, push.  The result carries
\* success and error_message, as MoveResult does, and the board afterwards.
ApplyPgnMove(b, pgn_move) ==
  IF pgn_move = "" THEN
    [success |-> FALSE, error_message |-> "Empty move received.", board |-> b]
  ELSE IF pgn_move \notin LegalMovesSan(b) THEN
    [success |-> FALSE, error_message |-> "Invalid move", board |-> b]
  ELSE
    [success |-> TRUE, error_message |-> None,
     board |-> Board(OtherSide(b.turn), Append(b.moves, pgn_move),
                     IF pgn_move = MateMove THEN "checkmate" ELSE "ongoing")]

\* ------------------------------------------------------ agent replies
ReplyEmpty == ""
ReplyProse == "I resign"
ReplyIllegal == "{move: Ke9}"
ReplyQuiet == "{move: e4, explanation: center}"
ReplyMate == "{move: Qh5#}"

\* game_loop.py:206: the text put in previous_attempt when no move was parsed.
NoValidMove == "your response (no valid move found)"

\* A reply whose move field holds that very text.
ReplyEcho == "{move: your response (no valid move found)}"
Replies == {ReplyEmpty, ReplyProse, ReplyIllegal, ReplyEcho, ReplyQuiet, ReplyMate}

\* parse_llm_response on the replies above: the empty reply is no_move, a
\* reply with no JSON object and no move-shaped token is invalid_json, a
\* JSON object with a move field gives that move and its explanation.
ParseLlmResponse(response) ==
  CASE response = ReplyEmpty ->
         [move |-> None, explanation |-> "", error_type |-> "no_move"]
    [] response = ReplyProse ->
         [move |-> None, explanation |-> "", error_type |-> "invalid_json"]
    [] response = ReplyIllegal ->
         [move |-> IllegalMove, explanation |-> "", error_type |-> None]
    [] response = ReplyEcho ->
         [move |-> NoValidMove, explanation |-> "", error_type |-> None]
    [] response = ReplyQuiet ->
         [move |-> QuietMove, explanation |-> "center", error_type |-> None]
    [] OTHER ->
         [move |-> MateMove, explanation |-> "", error_type |-> None]


\* ------------------------------------------------- reply texts, parsed
\* A string the parser looks into is a sequence of characters.  A reply
\* text is a sequence of segments separated by line breaks:
\*   object  the JSON object {"move": m, "explanation": e}
\*   fenced  the same object inside a ``` code block
\*   field   the text "move": "m" outside any JSON object
\*   prose   words that hold no move-shaped token
\* The values m and e are single words, with or without spaces around them.
TextE4 == <<"e", "4">>
TextD4 == <<"d", "4">>
TextZeroCastle == <<"0", "-", "0">>
TextPaddedE4 == <<" ", "e", "4">>
TextBlank == <<" ">>
TextOk == <<" ", "o", "k">>
NoText == <<>>

MoveTexts == {TextE4, TextD4, TextZeroCastle, TextPaddedE4, TextBlank, NoText}
ExplanationTexts == {NoText, TextOk, TextD4}

Segment(kind, move, explanation) ==
  [kind |-> kind, move |-> move, explanation |-> explanation]

Segments ==
  {Segment("object", m, e) : m \in MoveTexts, e \in ExplanationTexts}
    \cup {Segment("fenced", m, NoText) : m \in MoveTexts}
    \cup {Segment("field", m, NoText) : m \in MoveTexts \ {NoText}}
    \cup {Segment("prose", NoText, NoText)}

ReplyTexts == UNION {[1..n -> Segments] : n \in 0..MaxSegments}

\* str.strip()
RECURSIVE StripLeft(_)
StripLeft(s) == IF s # <<>> /\ Head(s) = " " THEN StripLeft(Tail(s)) ELSE s

RECURSIVE StripRight(_)
StripRight(s) ==
  IF s # <<>> /\ s[Len(s)] = " " THEN StripRight(SubSeq(s, 1, Len(s) - 1))
  ELSE s

Strip(s) == StripRight(StripLeft(s))

\* Variant of CastleZeros: the zeros are kept.
CastleZerosKept(move) == move

\* Lines 86-87, 109-110, 135-136: a move that starts with 0-0 has every
\* zero replaced by the letter O.
CastleZeros(move) ==
  IF Len(move) >= 3 /\ SubSeq(move, 1, 3) = TextZeroCastle
  THEN [i \in 1..Len(move) |-> IF move[i] = "0" THEN "O" ELSE move[i]]
  ELSE move

\* The words _CASTLING_PATTERN, _PIECE_PATTERN and _PAWN_PATTERN match
\* (lines 26-38), among the words of the reply texts.
PgnWords == {TextE4, TextD4, TextZeroCastle}

\* The quoted values of a segment, in the order of the text.
SegmentValues(g) ==
  CASE g.kind \in {"object", "fenced"} -> <<g.move, g.explanation>>
    [] g.kind = "field" -> <<g.move>>
    [] OTHER -> <<>>

RECURSIVE TextValues(_)
TextValues(text) ==
  IF text = <<>> THEN <<>>
  ELSE SegmentValues(Head(text)) \o TextValues(Tail(text))

\* _extract_json (lines 48-77): the object of the last code block; else the
\* whole text when it is one JSON object; the tail from the last closing
\* brace starts with that brace and never parses.
NoObject == [found |-> FALSE, move |-> NoText, explanation |-> NoText]

ExtractJson(text) ==
  LET blocks == SelectSeq(text, LAMBDA g : g.kind = "fenced")
  IN IF blocks # <<>>
     THEN [found |-> TRUE, move |-> blocks[Len(blocks)].move,
           explanation |-> blocks[Len(blocks)].explanation]
     ELSE IF Len(text) = 1 /\ text[1].kind = "object"
     THEN [found |-> TRUE, move |-> text[1].move,
           explanation |-> text[1].explanation]
     ELSE NoObject

\* The matches of _JSON_MOVE_PATTERN (lines 42-45): the move fields with a
\* value of at least one character, in the order of the text.
MoveFieldMatches(text) ==
  SelectSeq(text, LAMBDA g : g.kind # "prose" /\ g.move # NoText)

\* Variant of ExtractMoveFromJsonLiteral: the first match is taken.
ExtractMoveFromJsonLiteralFirst(text) ==
  LET matches == MoveFieldMatches(text)
  IN IF matches = <<>> THEN NoText
     ELSE CastleZeros(Strip(matches[1].move))

\* _extract_move_from_json_literal (lines 80-88); None is the empty text.
ExtractMoveFromJsonLiteral(text) ==
  LET matches == MoveFieldMatches(text)
  IN IF matches = <<>> THEN NoText
     ELSE CastleZeros(Strip(matches[Len(matches)].move))

\* _extract_move_regex (lines 91-112) on the quoted values of a text: the
\* last move-shaped word; None is the empty text.
ExtractMoveRegex(values) ==
  LET found == SelectSeq(values, LAMBDA v : Strip(v) \in PgnWords)
  IN IF found = <<>> THEN NoText
     ELSE CastleZeros(Strip(found[Len(found)]))

ParsedResponse(move, explanation, error_type) ==
  [move |-> move, explanation |-> explanation, error_type |-> error_type]

\* parse_llm_response (lines 115-156) on a reply text; the move None is the
\* empty text.
ParseLlmResponseText(text) ==
  IF text = <<>> THEN ParsedResponse(NoText, NoText, "no_move")
  ELSE
    LET data == ExtractJson(text)
    IN IF data.found
       THEN IF Strip(data.move) # NoText
            THEN ParsedResponse(CastleZeros(Strip(data.move)),
                                Strip(data.explanation), None)
            ELSE LET in_explanation == ExtractMoveRegex(<<data.explanation>>)
                     move == IF in_explanation # NoText THEN in_explanation
                             ELSE ExtractMoveRegex(TextValues(text))
                 IN IF move # NoText
                    THEN ParsedResponse(move, Strip(data.explanation), None)
                    ELSE ParsedResponse(NoText, Strip(data.explanation),
                                        "no_move")
       ELSE LET literal == ExtractMoveFromJsonLiteral(text)
                token == ExtractMoveRegex(TextValues(text))
            IN IF literal # NoText THEN ParsedResponse(literal, NoText, None)
               ELSE IF token # NoText THEN ParsedResponse(token, NoText, None)
               ELSE ParsedResponse(NoText, NoText, "invalid_json")

\* Before the parser is called.
NotParsed ==
  [calls |-> 0, first |-> ParsedResponse(NoText, NoText, None),
   last |-> ParsedResponse(NoText, NoText, None)]

\* ------------------------------------------------------- match state
\* GameState(): the default record of a new game.
FreshState ==
  [fen |-> Board(White, <<>>, "ongoing"),
   move_history |-> <<>>,
   white_name |-> None,
   black_name |-> None,
   is_game_over |-> FALSE,
   winner |-> None,
   termination_reason |-> None,
   move_log |-> <<>>,
   white_remaining_seconds |-> NoNumber,
   black_remaining_seconds |-> NoNumber,
   white_timer_started |-> FALSE,
   black_timer_started |-> FALSE]

\* GameResult(): the result run_game starts with.
FreshResult ==
  [move_history |-> <<>>,
   outcome |-> None,
   winner_name |-> None,
   loser_name |-> None,
   termination_reason |-> None,
   forfeit_by |-> None,
   forfeit_attempts |-> <<>>]

VARIABLES
  max_retries,              \* run_game argument
  time_per_player_seconds,  \* run_game argument; NoNumber is None
  resumed,                  \* initial_state_dict is not None
  engine,                   \* the ChessEngine's board
  move_history,             \* run_game's list of applied moves
  white_remaining,          \* run_game's clock
  black_remaining,
  white_has_moved,
  black_has_moved,
  pc,                       \* where run_game is
  is_white,                 \* locals of the current turn
  is_first_move,
  request,
  retries_left,
  conversation,
  rejected_moves_this_turn,
  call_elapsed,             \* seconds since the pending agent call began
  result,                   \* the GameResult
  error,                    \* the exception that left run_game, or None
  state,                    \* game_state._state
  file,                     \* the state file: [present, data, writes, failures]
  live,                     \* the live clock tuple of game_state
  cancel_game_id,           \* game_state._cancel_game_id
  accepted_moves,           \* history: the moves the engine accepted in this run
  live_age,                 \* time.time() - _live_last_update, in seconds
  ticker,                   \* the ticker thread: [pc, error]
  reader,                   \* the threads serving /api/tick, each
                            \* [pc, white, black]
  last_read,                \* history: what get_live_remaining last returned
                            \* to the client that polls one at a time
  last_op,                  \* history: the last two state functions called
  reply_text,               \* the reply text given to parse_llm_response
  parsed_reply,             \* history: [calls, first, last] of the parser
  game_running,             \* api._game_running
  threads,                  \* the game threads of the server, each
                            \* [pc, retries_left, cancelled, applied]
  api,                      \* history of the requests:
                            \* [requests, status, reset_pending]
  tick_body                 \* the last answer of the Lambda api_tick handler

vars == <<max_retries, time_per_player_seconds, resumed, engine, move_history,
          white_remaining, black_remaining, white_has_moved, black_has_moved,
          pc, is_white, is_first_move, request, retries_left, conversation,
          rejected_moves_this_turn, call_elapsed, result, error, state, file,
          live, cancel_game_id, accepted_moves, live_age, ticker, reader,
          last_read, last_op, reply_text, parsed_reply, game_running,
          threads, api, tick_body>>

\* The variables of the parser.
parser_vars == <<reply_text, parsed_reply>>

\* The variables of the local server.
api_vars == <<game_running, threads, api>>

\* The variables of the threads beside run_game.
observers == <<live_age, ticker, reader, last_read, last_op, parser_vars,
               api_vars, tick_body>>

\* ---------------------------------------------------- run_game helpers
\* Variant of UseTimer: a limit of zero seconds counts as a limit.
UseTimerZeroCounts(t) == t # NoNumber /\ t >= 0

\* use_timer (game_loop.py line 88)
UseTimer(t) == t # NoNumber /\ t > 0

\* The configured time settings: None, 0, and the whole seconds up to MaxTime.
TimeSettings == {NoNumber, 0} \cup (1..MaxTime)

\* MoveRequest: the fields that differ between the requests of one turn
\* (fen, move_history, side_to_move, legal_moves and the clocks are those of
\* the turn).
FirstRequest ==
  [is_retry |-> FALSE, error_message |-> None, previous_attempt |-> None,
   is_parse_error |-> FALSE, rejected_moves |-> <<>>]

RetryRequest(error_message, previous_attempt, is_parse_error, rejected) ==
  [is_retry |-> TRUE, error_message |-> error_message,
   previous_attempt |-> previous_attempt,
   is_parse_error |-> is_parse_error, rejected_moves |-> rejected]

\* build_user_prompt: the template chosen and what is filled into it.
BuildUserPrompt(req, history) ==
  IF req.is_retry /\ req.error_message # None THEN
    IF req.is_parse_error THEN
      [template |-> "retry_parse", previous_attempt |-> "",
       error_message |-> req.error_message,
       rejected_moves |-> req.rejected_moves]
    ELSE
      [template |-> "retry_illegal",
       previous_attempt |-> IF req.previous_attempt = None THEN ""
                            ELSE req.previous_attempt,
       error_message |-> req.error_message,
       rejected_moves |-> req.rejected_moves]
  ELSE
    [template |-> IF history = <<>> THEN "first_move" ELSE "move",
     previous_attempt |-> "", error_message |-> "", rejected_moves |-> <<>>]

\* Variant of RetriesInit: max_retries = 0 read as "one attempt, no retry".
RetriesInitZeroIsOne(mr) == IF mr > 0 THEN mr ELSE 1

\* The budget a turn starts with (line 148): 0 means unlimited attempts.
RetriesInit(mr) == IF mr > 0 THEN mr ELSE Inf

\* should_time (line 157)
ShouldTime(t, first) == UseTimer(t) /\ ~first

\* Variant of IsFirstMove: only White's first move is exempt.
IsFirstMoveWhiteOnly(white, w_moved, b_moved) == white /\ ~w_moved

\* is_first_move (line 131)
IsFirstMove(white, w_moved, b_moved) ==
  (white /\ ~w_moved) \/ (~white /\ ~b_moved)

\* Variant of DeductElapsed: both clocks run during the call.
DeductElapsedBoth(white, w, b, elapsed) ==
  [white |-> w - elapsed, black |-> b - elapsed]

\* The clocks after deducting elapsed from the moving side (lines 181-188).
DeductElapsed(white, w, b, elapsed) ==
  IF white THEN [white |-> w - elapsed, black |-> b]
  ELSE [white |-> w, black |-> b - elapsed]

\* Variant of OpponentName: the moving side itself is named.
OpponentNameSwapped(white) == IF white THEN WhiteName ELSE BlackName

\* The winner named when the moving side forfeits (lines 163, 184-188, 265).
OpponentName(white) == IF white THEN BlackName ELSE WhiteName

\* The error message of a reply with no move (lines 195-204).
ParseErrorMessage(error_type) ==
  IF error_type = "invalid_json" THEN "Your response was not valid JSON."
  ELSE "Could not parse your move from your response."

\* ------------------------------------------------ game_state helpers
\* update_state: u holds the keyword arguments the call passes; an argument
\* left out, or passed as None, leaves its field as it is.
UpdateState(s, u) ==
  LET has(f) == f \in DOMAIN u
      secs(v) == IF v >= 0 THEN v ELSE NoNumber
  IN [fen |-> IF has("fen") THEN u.fen ELSE s.fen,
      move_history |-> IF has("move_history") THEN u.move_history
                       ELSE s.move_history,
      white_name |-> IF has("white_name") /\ u.white_name # None
                     THEN u.white_name ELSE s.white_name,
      black_name |-> IF has("black_name") /\ u.black_name # None
                     THEN u.black_name ELSE s.black_name,
      is_game_over |-> IF has("is_game_over") THEN u.is_game_over
                       ELSE s.is_game_over,
      winner |-> IF has("winner") /\ u.winner # None THEN u.winner
                 ELSE s.winner,
      termination_reason |->
        IF has("termination_reason") /\ u.termination_reason # None
        THEN u.termination_reason ELSE s.termination_reason,
      move_log |-> IF has("chat_entry") THEN Append(s.move_log, u.chat_entry)
                   ELSE s.move_log,
      white_remaining_seconds |->
        IF has("white_remaining_seconds") /\ u.white_remaining_seconds # NoNumber
        THEN secs(u.white_remaining_seconds) ELSE s.white_remaining_seconds,
      black_remaining_seconds |->
        IF has("black_remaining_seconds") /\ u.black_remaining_seconds # NoNumber
        THEN secs(u.black_remaining_seconds) ELSE s.black_remaining_seconds,
      white_timer_started |->
        IF has("white_timer_started") THEN u.white_timer_started
        ELSE s.white_timer_started,
      black_timer_started |->
        IF has("black_timer_started") THEN u.black_timer_started
        ELSE s.black_timer_started]

\* GameState.from_dict on a record with every field: a remaining time that
\* is negative or infinite becomes None.
FromDict(d) ==
  LET secs(v) == IF v # NoNumber /\ (v = Inf \/ v < 0) THEN NoNumber ELSE v
  IN [d EXCEPT !.white_remaining_seconds = secs(@),
               !.black_remaining_seconds = secs(@)]

\* The ways a call of _write_state_file can end (lines 299-303): the JSON is
\* written; open() raises and the file is as it was; or open() has truncated
\* the file and the dump or the close raises, which leaves a file that
\* _read_state_file (lines 307-316) cannot load.  The OSError is swallowed.
WriteOutcomes == {"written", "kept", "torn"}

\* _write_state_file.  The file is modelled by what _read_state_file gives:
\* present is "a state can be loaded", data that state.  writes and failures
\* are history: the calls made and the calls that raised.
WriteStateFile(f, s, outcome) ==
  [present |-> IF outcome = "written" THEN TRUE
               ELSE IF outcome = "kept" THEN f.present ELSE FALSE,
   data |-> IF outcome = "written" THEN s
            ELSE IF outcome = "kept" THEN f.data ELSE FreshState,
   writes |-> f.writes + 1,
   failures |-> IF outcome = "written" THEN f.failures ELSE f.failures + 1]

NoFile == [present |-> FALSE, data |-> FreshState, writes |-> 0, failures |-> 0]

\* The live clock tuple as the module defines it (game_state.py lines 85-90);
\* last_update_set is "_live_last_update is not None".
LiveInit ==
  [white |-> 0, black |-> 0, side_to_move |-> None, last_update_set |-> FALSE,
   game_id |-> None, timer_active |-> FALSE]

Max0(x) == IF x > 0 THEN x ELSE 0

\* set_live_remaining
SetLiveRemaining(w, b, side, gid, active) ==
  [white |-> Max0(w), black |-> Max0(b), side_to_move |-> side,
   last_update_set |-> TRUE, game_id |-> gid, timer_active |-> active]

\* Variant of ClearLiveRemaining: the clock is left running.
ClearLiveRemainingKeepsTicking(l) == l

\* clear_live_remaining
ClearLiveRemaining(l) == [l EXCEPT !.last_update_set = FALSE]

\* has_live_remaining
HasLiveRemaining == live.last_update_set

\* is_cancelled(game_id) on the in-memory flag (no STATE_BUCKET).
IsCancelled(gid) == cancel_game_id # None /\ gid = cancel_game_id

\* Variant of ResetState: the winner of the earlier match is kept.
ResetStateKeepsWinner(prev) == [FreshState EXCEPT !.winner = prev.winner]

\* Variant of ResetState: the move log of the earlier match is kept.
ResetStateKeepsLog(prev) == [FreshState EXCEPT !.move_log = prev.move_log]

\* reset_state: the state becomes the default record, whatever it was.
ResetState(prev) == FreshState

\* Variant of TerminalUpdate: the termination reason is not passed.
TerminalUpdateNoReason(winner, reason) ==
  [is_game_over |-> TRUE, winner |-> winner]

\* The keyword arguments of the update_state call that ends a match
\* (game_loop.py lines 51, 174, 266, 296).
TerminalUpdate(winner, reason) ==
  [is_game_over |-> TRUE, winner |-> winner, termination_reason |-> reason]

\* Variant of TimeIsUp: a clock at exactly zero is not up.
TimeIsUpStrict(remaining) == remaining < 0

\* "remaining <= 0" (lines 160, 183, 187)
TimeIsUp(remaining) == remaining <= 0

\* Variant of BudgetExhausted: the forfeit comes one attempt early.
BudgetExhaustedEarly(rl) == rl # Inf /\ rl <= 1

\* "retries_left != inf and retries_left <= 0" (line 259)
BudgetExhausted(rl) == rl # Inf /\ rl <= 0

\* _end_time_forfeit on the GameResult (lines 46-50)
EndTimeForfeit(res, hist, loser, winner) ==
  [res EXCEPT !.forfeit_by = loser, !.move_history = hist,
              !.termination_reason = "time", !.loser_name = loser,
              !.winner_name = winner]

\* ----------------------------------------------------------- set-up
\* The entry of move_log for one applied move (lines 225-231).
ChatEntry(move, side, llm_name, explanation, messages) ==
  [move |-> move, side |-> side, llm_name |-> llm_name,
   explanation |-> explanation, messages |-> messages]

StdMoves == <<"e4", "e5", "Nf3", "Nc6">>

\* initial_state_dict: the record of a match from the standard start after
\* k moves; k = 0 is the record game_run's handler builds (lines 119-131).
ResumeDict(k, t) ==
  LET hist == SubSeq(StdMoves, 1, k)
      side(i) == IF i % 2 = 1 THEN White ELSE Black
  IN [fen |-> Board(side(k + 1), hist, "ongoing"),
      move_history |-> hist,
      white_name |-> WhiteName,
      black_name |-> BlackName,
      is_game_over |-> FALSE,
      winner |-> None,
      termination_reason |-> None,
      move_log |-> [i \in 1..k |->
                      ChatEntry(hist[i], side(i), NameOf(side(i)), "", <<>>)],
      white_remaining_seconds |-> IF UseTimer(t) THEN t ELSE NoNumber,
      black_remaining_seconds |-> IF UseTimer(t) THEN t ELSE NoNumber,
      white_timer_started |-> k >= 1,
      black_timer_started |-> k >= 2]

\* What game_state._state may hold when run_game is called: the default
\* record, or the record an earlier match of the process left behind.
PreviousStates ==
  {FreshState,
   UpdateState(ResumeDict(2, MaxTime), TerminalUpdate(WhiteName, "forfeit"))}

\* The positions a match that is not resumed starts from (starting_fen).
StartBoards ==
  {Board(turn, <<>>, status) :
     turn \in Sides, status \in {"ongoing", "checkmate", "stalemate"}}

NoRead == [valid |-> FALSE, white |-> 0, black |-> 0]

\* The threads that serve GET /api/tick (api.py lines 200-208): the
\* endpoint is a plain function, which the server runs in a thread pool.
Readers == {"tick1", "tick2"}

\* The thread serving a client that sends its next request after the answer
\* to the last one; last_read follows what this client is told.
Poller == "tick1"

\* A thread that is not inside get_live_remaining.
Idle == [pc |-> "idle", white |-> 0, black |-> 0]

\* The ticker thread before start_ticker_thread; error is the exception
\* its last tick_live_remaining raised.
TickerIdle == [pc |-> "idle", error |-> None]

InitObservers ==
  /\ live_age = 0
  /\ reader = [i \in Readers |-> Idle]
  /\ last_read = NoRead
  /\ last_op = <<>>

\* The game threads of the server, in the order they are started.
ThreadIds == 1..MaxThreads

\* A thread the server has not started; cancelled and applied are history:
\* a reset has asked the thread's match to stop, and the moves its engine
\* has accepted.
NoThread ==
  [pc |-> "none", retries_left |-> 0, cancelled |-> FALSE, applied |-> 0]

\* The server as the process starts (api.py lines 39-41).
InitNoApi ==
  /\ game_running = FALSE
  /\ threads = [t \in ThreadIds |-> NoThread]
  /\ api = [requests |-> 0, status |-> 0, reset_pending |-> FALSE]

\* The Lambda api_tick handler has not been called.
NoTickBody ==
  [called |-> FALSE, whiteRemainingSeconds |-> NoNumber,
   blackRemainingSeconds |-> NoNumber, isGameOver |-> FALSE,
   terminationReason |-> None, winner |-> None]

InitNoTick == tick_body = NoTickBody

\* No reply text is being parsed.
InitNoReply ==
  /\ reply_text = <<>>
  /\ parsed_reply = NotParsed

\* Lines 118-122: the ticker thread is started only for a match with a timer.
TickerAtStart(t) ==
  IF UseTimer(t) THEN [TickerIdle EXCEPT !.pc = "sleeping"] ELSE TickerIdle

InitLocals ==
  /\ pc = "turn"
  /\ is_white = TRUE
  /\ is_first_move = TRUE
  /\ request = FirstRequest
  /\ retries_left = 0
  /\ conversation = <<>>
  /\ rejected_moves_this_turn = <<>>
  /\ call_elapsed = 0
  /\ result = FreshResult
  /\ error = None
  /\ cancel_game_id = None
  /\ accepted_moves = 0
  /\ InitObservers

\* run_game lines 87-91 and 97-122: a new match.
InitFresh ==
  \E mr \in 0..MaxRetries, t \in TimeSettings, b \in StartBoards,
     prev \in PreviousStates, ok1 \in WriteOutcomes, ok2 \in WriteOutcomes :
    LET rem == IF UseTimer(t) THEN t ELSE Inf
        pub == IF UseTimer(t) /\ rem # Inf THEN rem ELSE NoNumber
        s1 == ResetState(prev)
        s2 == UpdateState(s1,
                [fen |-> b, move_history |-> <<>>, white_name |-> WhiteName,
                 black_name |-> BlackName, is_game_over |-> FALSE,
                 white_remaining_seconds |-> pub,
                 black_remaining_seconds |-> pub,
                 white_timer_started |-> FALSE,
                 black_timer_started |-> FALSE])
    IN /\ max_retries = mr
       /\ time_per_player_seconds = t
       /\ resumed = FALSE
       /\ engine = b
       /\ move_history = <<>>
       /\ white_remaining = rem
       /\ black_remaining = rem
       /\ white_has_moved = FALSE
       /\ black_has_moved = FALSE
       /\ state = s2
       /\ file = WriteStateFile(WriteStateFile(NoFile, s1, ok1), s2, ok2)
       /\ live = IF UseTimer(t)
                 THEN SetLiveRemaining(rem, rem, White, GameId, FALSE)
                 ELSE LiveInit
       /\ ticker = TickerAtStart(t)
       /\ InitLocals
       /\ InitNoReply
       /\ InitNoApi
       /\ InitNoTick

\* run_game lines 87-96 and 114-122: a match resumed from initial_state_dict.
InitResumed ==
  \E mr \in 0..MaxRetries, t \in TimeSettings, k \in 0..MaxResume,
     ok1 \in WriteOutcomes :
    LET rem == IF UseTimer(t) THEN t ELSE Inf
        d == ResumeDict(k, t)
        w_moved == Len(d.move_history) >= 1
        b_moved == Len(d.move_history) >= 2
        active == (d.fen.turn = White /\ w_moved)
                  \/ (d.fen.turn = Black /\ b_moved)
    IN /\ max_retries = mr
       /\ time_per_player_seconds = t
       /\ resumed = TRUE
       /\ engine = d.fen
       /\ move_history = d.move_history
       /\ white_remaining = rem
       /\ black_remaining = rem
       /\ white_has_moved = w_moved
       /\ black_has_moved = b_moved
       /\ state = FromDict(d)
       /\ file = WriteStateFile(NoFile, FromDict(d), ok1)
       /\ live = IF UseTimer(t)
                 THEN SetLiveRemaining(rem, rem, d.fen.turn, GameId, active)
                 ELSE LiveInit
       /\ ticker = TickerAtStart(t)
       /\ InitLocals
       /\ InitNoReply
       /\ InitNoApi
       /\ InitNoTick

Init == InitFresh \/ InitResumed

\* ------------------------------------------------------ the turn loop
Mover == IF is_white THEN White ELSE Black
MoverName == NameOf(Mover)
MoverRemaining == IF is_white THEN white_remaining ELSE black_remaining

config == <<max_retries, time_per_player_seconds, resumed>>
turn_locals == <<is_white, is_first_move, request, retries_left, conversation,
                 rejected_moves_this_turn, call_elapsed>>
clocks == <<white_remaining, black_remaining>>
has_moved == <<white_has_moved, black_has_moved>>

\* update_state(**u): the state is updated and written to the state file;
\* the write may fail.
Publish(u) ==
  /\ state' = UpdateState(state, u)
  /\ \E ok \in WriteOutcomes : file' = WriteStateFile(file, UpdateState(state, u), ok)

\* Lines 124-127: the cancel flag is set when a turn begins.  The live clock
\* is stopped and the result returned as it is; update_state is not called.
CancelAtTurnStart ==
  /\ pc = "turn"
  /\ ~EngineIsGameOver(engine)
  /\ IsCancelled(GameId)
  /\ live' = ClearLiveRemaining(live)
  /\ pc' = "done"
  /\ UNCHANGED <<config, observers, engine, move_history, clocks, has_moved, turn_locals,
                 result, error, state, file, cancel_game_id, accepted_moves>>

\* Lines 124 and 284-298: the position is over.
GameOver ==
  /\ pc = "turn"
  /\ EngineIsGameOver(engine)
  /\ LET outcome == EngineOutcome(engine)
         winner == IF outcome.winner = None THEN None ELSE NameOf(outcome.winner)
         loser == IF outcome.winner = None THEN None
                  ELSE NameOf(OtherSide(outcome.winner))
     IN /\ result' = [result EXCEPT !.move_history = move_history,
                                    !.outcome = outcome.termination,
                                    !.termination_reason = outcome.termination,
                                    !.winner_name = winner,
                                    !.loser_name = loser]
        /\ Publish(TerminalUpdate(winner, outcome.termination))
  /\ live' = ClearLiveRemaining(live)
  /\ pc' = "done"
  /\ UNCHANGED <<config, observers, engine, move_history, clocks, has_moved, turn_locals,
                 error, cancel_game_id, accepted_moves>>

\* Lines 128-151: a turn begins.
StartTurn ==
  /\ pc = "turn"
  /\ ~EngineIsGameOver(engine)
  /\ ~IsCancelled(GameId)
  /\ LET white == engine.turn = White
         first == IsFirstMove(white, white_has_moved, black_has_moved)
     IN /\ is_white' = white
        /\ is_first_move' = first
        /\ live' = IF UseTimer(time_per_player_seconds)
                   THEN SetLiveRemaining(white_remaining, black_remaining,
                                         engine.turn, GameId, ~first)
                   ELSE live
  /\ result' = [result EXCEPT !.forfeit_attempts = <<>>]
  /\ request' = FirstRequest
  /\ retries_left' = RetriesInit(max_retries)
  /\ conversation' = <<>>
  /\ rejected_moves_this_turn' = <<>>
  /\ pc' = "attempt"
  /\ UNCHANGED <<config, observers, engine, move_history, clocks, has_moved, call_elapsed,
                 error, state, file, cancel_game_id, accepted_moves>>

\* Lines 153-168: the inner loop's test, the clock check before the call,
\* and the call to llm.send_prompt.  No move is ever applied at this point
\* (move_applied is false), so the loop is left only when the budget is used
\* up; a clock that is already at zero ends the match without a call.
SendPrompt ==
  /\ pc = "attempt"
  /\ Len(conversation) < MaxAttempts
  /\ IF ~(retries_left > 0) THEN
       /\ pc' = "turn"
       /\ UNCHANGED <<result, state, file, live, call_elapsed>>
     ELSE IF ShouldTime(time_per_player_seconds, is_first_move)
             /\ TimeIsUp(MoverRemaining) THEN
       /\ result' = EndTimeForfeit(result, move_history, MoverName,
                                   OpponentName(is_white))
       /\ Publish(TerminalUpdate(OpponentName(is_white), "time"))
       /\ live' = ClearLiveRemaining(live)
       /\ pc' = "done"
       /\ UNCHANGED call_elapsed
     ELSE
       /\ call_elapsed' = 0
       /\ pc' = "calling"
       /\ UNCHANGED <<result, state, file, live>>
  /\ UNCHANGED <<config, observers, engine, move_history, clocks, has_moved, is_white,
                 is_first_move, request, retries_left, conversation,
                 rejected_moves_this_turn, error, cancel_game_id,
                 accepted_moves>>

\* A second passes while the agent call is pending.
Tick ==
  /\ pc = "calling"
  /\ call_elapsed < MaxElapsed
  /\ call_elapsed' = call_elapsed + 1
  /\ UNCHANGED <<config, observers, engine, move_history, clocks, has_moved, pc, is_white,
                 is_first_move, request, retries_left, conversation,
                 rejected_moves_this_turn, result, error, state, file, live,
                 cancel_game_id, accepted_moves>>

\* Variant of SendPromptRaises: the failure is caught and the call repeated
\* at the cost of one retry.
SendPromptRaisesCaught ==
  /\ pc = "calling"
  /\ retries_left' = IF retries_left # Inf THEN retries_left - 1 ELSE retries_left
  /\ pc' = "attempt"
  /\ UNCHANGED <<config, observers, engine, move_history, clocks, has_moved,
                 is_white, is_first_move, request, conversation,
                 rejected_moves_this_turn, call_elapsed, result, error, state,
                 file, live, cancel_game_id, accepted_moves>>

\* Line 168: llm.send_prompt raises; run_game catches nothing.
SendPromptRaises ==
  /\ pc = "calling"
  /\ pc' = "raised"
  /\ error' = "GatewayFailure"
  /\ UNCHANGED <<config, observers, engine, move_history, clocks, has_moved, turn_locals,
                 result, state, file, live, cancel_game_id, accepted_moves>>

\* Line 169
Exchange(r) == [prompt |-> BuildUserPrompt(request, move_history), response |-> r]

\* Variant of StoppedResult: the side that was asked is named the loser.
StoppedResultNamesLoser(res, hist) ==
  [res EXCEPT !.move_history = hist, !.termination_reason = "stopped",
              !.loser_name = MoverName, !.winner_name = OpponentName(is_white)]

\* Lines 172-173: the result of a match stopped on request.
StoppedResult(res, hist) ==
  [res EXCEPT !.move_history = hist, !.termination_reason = "stopped"]

\* Lines 171-176: the cancel flag is set when the call returns.
ReplyCancelled(r) ==
  /\ pc = "calling"
  /\ conversation' = Append(conversation, Exchange(r))
  /\ IsCancelled(GameId)
  /\ result' = StoppedResult(result, move_history)
  /\ Publish(TerminalUpdate(None, "stopped"))
  /\ live' = ClearLiveRemaining(live)
  /\ pc' = "done"
  /\ UNCHANGED <<config, observers, engine, move_history, clocks, has_moved, is_white,
                 is_first_move, request, retries_left,
                 rejected_moves_this_turn, call_elapsed, error, cancel_game_id,
                 accepted_moves>>

\* The clocks after lines 179-188.
ClocksAfterCall ==
  IF ShouldTime(time_per_player_seconds, is_first_move)
  THEN DeductElapsed(is_white, white_remaining, black_remaining, call_elapsed)
  ELSE [white |-> white_remaining, black |-> black_remaining]

\* Whether lines 183 / 187 end the match on time.
ExpiresOnReturn ==
  /\ ShouldTime(time_per_player_seconds, is_first_move)
  /\ TimeIsUp(IF is_white THEN ClocksAfterCall.white ELSE ClocksAfterCall.black)

\* Variant of ReplyTimeExpired: the time is deducted before the cancel flag
\* is looked at.
ReplyTimeExpiredBeforeCancel(r) ==
  /\ pc = "calling"
  /\ conversation' = Append(conversation, Exchange(r))
  /\ ExpiresOnReturn
  /\ white_remaining' = ClocksAfterCall.white
  /\ black_remaining' = ClocksAfterCall.black
  /\ result' = EndTimeForfeit(result, move_history, MoverName,
                              OpponentName(is_white))
  /\ Publish(TerminalUpdate(OpponentName(is_white), "time"))
  /\ live' = ClearLiveRemaining(live)
  /\ pc' = "done"
  /\ UNCHANGED <<config, observers, engine, move_history, has_moved, is_white,
                 is_first_move, request, retries_left,
                 rejected_moves_this_turn, call_elapsed, error, cancel_game_id,
                 accepted_moves>>

\* Lines 178-188: the call used up the moving side's time.
ReplyTimeExpired(r) ==
  /\ pc = "calling"
  /\ conversation' = Append(conversation, Exchange(r))
  /\ ~IsCancelled(GameId)
  /\ ExpiresOnReturn
  /\ white_remaining' = ClocksAfterCall.white
  /\ black_remaining' = ClocksAfterCall.black
  /\ result' = EndTimeForfeit(result, move_history, MoverName,
                              OpponentName(is_white))
  /\ Publish(TerminalUpdate(OpponentName(is_white), "time"))
  /\ live' = ClearLiveRemaining(live)
  /\ pc' = "done"
  /\ UNCHANGED <<config, observers, engine, move_history, has_moved, is_white,
                 is_first_move, request, retries_left,
                 rejected_moves_this_turn, call_elapsed, error, cancel_game_id,
                 accepted_moves>>

\* Lines 190-211: the reply parsed and, when it holds a move, handed to the
\* engine.
MoveAttempt(r) ==
  LET parsed == ParseLlmResponse(r)
  IN IF parsed.move = None
     THEN [success |-> FALSE,
           error_message |-> ParseErrorMessage(parsed.error_type),
           board |-> engine, previous_attempt |-> NoValidMove,
           is_parse_error |-> TRUE]
     ELSE LET mr == ApplyPgnMove(engine, parsed.move)
          IN [success |-> mr.success, error_message |-> mr.error_message,
              board |-> mr.board, previous_attempt |-> parsed.move,
              is_parse_error |-> FALSE]

\* Variant of AttemptsAfterReject: the newest attempt is put first.
AttemptsAfterRejectNewestFirst(r) ==
  <<[prompt |-> BuildUserPrompt(request, move_history), response |-> r,
     reason |-> IF MoveAttempt(r).error_message = None THEN "Unknown error"
                ELSE MoveAttempt(r).error_message]>>
  \o result.forfeit_attempts

\* Lines 252-258: the bookkeeping of a rejected attempt.
AttemptsAfterReject(r) ==
  Append(result.forfeit_attempts,
         [prompt |-> BuildUserPrompt(request, move_history), response |-> r,
          reason |-> IF MoveAttempt(r).error_message = None THEN "Unknown error"
                     ELSE MoveAttempt(r).error_message])

RejectedAfterReject(r) ==
  IF MoveAttempt(r).previous_attempt # NoValidMove
  THEN Append(rejected_moves_this_turn, MoveAttempt(r).previous_attempt)
  ELSE rejected_moves_this_turn

RetriesAfterReject == IF retries_left # Inf THEN retries_left - 1 ELSE retries_left

\* Lines 250-258 and 270-282: a rejected attempt with budget left.
ReplyRejected(r) ==
  /\ pc = "calling"
  /\ conversation' = Append(conversation, Exchange(r))
  /\ ~IsCancelled(GameId)
  /\ ~ExpiresOnReturn
  /\ ~MoveAttempt(r).success
  /\ ~BudgetExhausted(RetriesAfterReject)
  /\ white_remaining' = ClocksAfterCall.white
  /\ black_remaining' = ClocksAfterCall.black
  /\ result' = [result EXCEPT !.forfeit_attempts = AttemptsAfterReject(r)]
  /\ rejected_moves_this_turn' = RejectedAfterReject(r)
  /\ retries_left' = RetriesAfterReject
  /\ request' = RetryRequest(MoveAttempt(r).error_message,
                             MoveAttempt(r).previous_attempt,
                             MoveAttempt(r).is_parse_error,
                             RejectedAfterReject(r))
  /\ pc' = "attempt"
  /\ UNCHANGED <<config, observers, engine, move_history, has_moved, is_white,
                 is_first_move, call_elapsed, error, state, file, live,
                 cancel_game_id, accepted_moves>>

\* Lines 250-268: the rejected attempt that uses up the budget.
ReplyForfeit(r) ==
  /\ pc = "calling"
  /\ conversation' = Append(conversation, Exchange(r))
  /\ ~IsCancelled(GameId)
  /\ ~ExpiresOnReturn
  /\ ~MoveAttempt(r).success
  /\ BudgetExhausted(RetriesAfterReject)
  /\ white_remaining' = ClocksAfterCall.white
  /\ black_remaining' = ClocksAfterCall.black
  /\ rejected_moves_this_turn' = RejectedAfterReject(r)
  /\ retries_left' = RetriesAfterReject
  /\ result' = [result EXCEPT !.forfeit_attempts = AttemptsAfterReject(r),
                              !.forfeit_by = MoverName,
                              !.move_history = move_history,
                              !.termination_reason = "forfeit",
                              !.loser_name = MoverName,
                              !.winner_name = OpponentName(is_white)]
  /\ Publish(TerminalUpdate(OpponentName(is_white), "forfeit"))
  /\ live' = ClearLiveRemaining(live)
  /\ pc' = "done"
  /\ UNCHANGED <<config, observers, engine, move_history, has_moved, is_white,
                 is_first_move, request, call_elapsed, error, cancel_game_id,
                 accepted_moves>>

\* Lines 209-214: the engine accepts the move and pushes it on the board
\* (chess_engine.py line 102); line 214 then reads move_result.san_move, an
\* attribute MoveResult (chess_engine.py lines 16-22) does not have, and the
\* AttributeError leaves run_game.  Lines 215-249 are never reached: the move
\* is not appended to move_history, update_state is not called, and the live
\* clock is not cleared.
ReplyAccepted(r) ==
  /\ pc = "calling"
  /\ conversation' = Append(conversation, Exchange(r))
  /\ ~IsCancelled(GameId)
  /\ ~ExpiresOnReturn
  /\ MoveAttempt(r).success
  /\ white_remaining' = ClocksAfterCall.white
  /\ black_remaining' = ClocksAfterCall.black
  /\ engine' = MoveAttempt(r).board
  /\ accepted_moves' = accepted_moves + 1
  /\ error' = "AttributeError"
  /\ pc' = "raised"
  /\ UNCHANGED <<config, observers, move_history, has_moved, is_white, is_first_move,
                 request, retries_left, rejected_moves_this_turn, call_elapsed,
                 result, state, file, live, cancel_game_id>>

\* set_cancel_requested(g), called from outside the match.
SetCancelRequested(g) ==
  /\ pc \in {"turn", "attempt", "calling"}
  /\ cancel_game_id' = g
  /\ UNCHANGED <<config, observers, engine, move_history, clocks, has_moved, pc,
                 turn_locals, result, error, state, file, live, accepted_moves>>

Next ==
  \/ CancelAtTurnStart
  \/ GameOver
  \/ StartTurn
  \/ SendPrompt
  \/ Tick
  \/ SendPromptRaises
  \/ \E r \in Replies : ReplyCancelled(r)
  \/ \E r \in Replies : ReplyTimeExpired(r)
  \/ \E r \in Replies : ReplyRejected(r)
  \/ \E r \in Replies : ReplyForfeit(r)
  \/ \E r \in Replies : ReplyAccepted(r)
  \/ \E g \in GameIds : SetCancelRequested(g)

Spec == Init /\ [][Next]_vars

\* ------------------------------------- the live clock and its threads
\* run_game starts a ticker thread (game_loop.py line 122) that shares the
\* live clock tuple with the threads serving /api/tick (api.py line 203).
\* get_live_remaining takes _live_lock twice: once to read the tuple and
\* move _live_last_update, once to store the values computed in between, so
\* a step of another thread can fall between the two.  tick_live_remaining
\* is written the same way but assigns the module's names without declaring
\* them global, so it fails at its first read of _live_last_update.  run_game is seen here only through its calls of
\* set_live_remaining and clear_live_remaining; the rest of its state stays
\* as a match with a clock starts it.

\* The longest time that passes between two updates of _live_last_update.
MaxAge == 2

game_vars == <<config, engine, move_history, clocks, has_moved, pc,
               turn_locals, result, error, state, file, cancel_game_id,
               accepted_moves, parser_vars, api_vars, tick_body>>

InitClock ==
  /\ max_retries = 0
  /\ time_per_player_seconds = MaxTime
  /\ resumed = FALSE
  /\ engine = Board(White, <<>>, "ongoing")
  /\ move_history = <<>>
  /\ white_remaining = MaxTime
  /\ black_remaining = MaxTime
  /\ white_has_moved = FALSE
  /\ black_has_moved = FALSE
  /\ state = FreshState
  /\ file = NoFile
  /\ live = LiveInit
  /\ ticker = TickerIdle
  /\ InitLocals
  /\ InitNoReply
  /\ InitNoApi
  /\ InitNoTick

\* The values a thread computes between its two lock sections
\* (game_state.py lines 234-241): elapsed is taken from the side to move,
\* floored at zero.
Advanced(l, elapsed) ==
  [white |-> IF l.side_to_move = White THEN Max0(l.white - elapsed) ELSE l.white,
   black |-> IF l.side_to_move = White THEN l.black ELSE Max0(l.black - elapsed)]

\* For the history: last_read once get_live_remaining has returned (w, b)
\* in thread i.
Returned(i, w, b) ==
  IF i = Poller THEN [valid |-> TRUE, white |-> w, black |-> b] ELSE last_read

\* run_game calls set_live_remaining (game_loop.py lines 121, 133, 245).
\* For the history: a read that is under way is marked as overtaken, and the
\* values returned before this call do not count as read.
CallSetLiveRemaining(w, b, side, active) ==
  /\ live' = SetLiveRemaining(w, b, side, GameId, active)
  /\ live_age' = 0
  /\ last_read' = NoRead
  /\ reader' = [i \in Readers |->
                  IF reader[i].pc = "computed"
                  THEN [reader[i] EXCEPT !.pc = "overtaken"] ELSE reader[i]]
  /\ UNCHANGED <<game_vars, ticker, last_op>>

\* run_game calls clear_live_remaining (lines 52, 126, 175, 267, 297).
CallClearLiveRemaining ==
  /\ live.last_update_set
  /\ live' = ClearLiveRemaining(live)
  /\ UNCHANGED <<game_vars, live_age, ticker, reader, last_read, last_op>>

\* start_ticker_thread (game_state.py lines 247-259; game_loop.py line 122
\* calls it right after set_live_remaining).
StartTickerThread ==
  /\ ticker.pc \in {"idle", "exited"}
  /\ HasLiveRemaining
  /\ ticker' = [TickerIdle EXCEPT !.pc = "sleeping"]
  /\ UNCHANGED <<game_vars, live, live_age, reader, last_read, last_op>>

\* A second passes.
ClockAdvance ==
  /\ live.last_update_set
  /\ live_age < MaxAge
  /\ live_age' = live_age + 1
  /\ UNCHANGED <<game_vars, live, ticker, reader, last_read, last_op>>

\* The ticker wakes (lines 251-253) and finds the clock stopped.
TickerExit ==
  /\ ticker.pc = "sleeping"
  /\ ~HasLiveRemaining
  /\ ticker' = [ticker EXCEPT !.pc = "exited"]
  /\ UNCHANGED <<game_vars, live, live_age, reader, last_read, last_op>>

\* The ticker wakes and calls tick_live_remaining (lines 254-257).  The
\* function assigns _live_last_update, _live_white and _live_black (lines
\* 203, 213) with no global statement, so the names are local to it and the
\* test at line 200 raises UnboundLocalError; the lock is released, the
\* ticker's loop swallows the exception, and the tuple is as it was.
TickerTick ==
  /\ ticker.pc = "sleeping"
  /\ HasLiveRemaining
  /\ ticker' = [ticker EXCEPT !.error = "UnboundLocalError"]
  /\ UNCHANGED <<game_vars, live, live_age, reader, last_read, last_op>>

\* get_live_remaining, lines 228-232: the clock is stopped or not active and
\* the stored values are returned as they are.
ReaderReturnsStored(i) ==
  /\ reader[i].pc = "idle"
  /\ ~live.last_update_set \/ ~live.timer_active
  /\ last_read' = Returned(i, live.white, live.black)
  /\ UNCHANGED <<game_vars, live, live_age, ticker, reader, last_op>>

\* get_live_remaining, lines 228-241: the first lock section and the
\* computation.
ReaderRead(i) ==
  /\ reader[i].pc = "idle"
  /\ live.last_update_set
  /\ live.timer_active
  /\ reader' = [reader EXCEPT ![i] =
                  [pc |-> "computed",
                   white |-> Advanced(live, live_age).white,
                   black |-> Advanced(live, live_age).black]]
  /\ live_age' = 0
  /\ UNCHANGED <<game_vars, live, ticker, last_read, last_op>>

\* get_live_remaining, lines 242-244: the second lock section and the
\* return.
ReaderWrite(i) ==
  /\ reader[i].pc \in {"computed", "overtaken"}
  /\ live' = [live EXCEPT !.white = reader[i].white, !.black = reader[i].black]
  /\ last_read' = IF reader[i].pc = "computed"
                  THEN Returned(i, reader[i].white, reader[i].black)
                  ELSE IF i = Poller THEN NoRead ELSE last_read
  /\ reader' = [reader EXCEPT ![i] = Idle]
  /\ UNCHANGED <<game_vars, live_age, ticker, last_op>>

NextClock ==
  \/ \E w \in 0..MaxTime, b \in 0..MaxTime, side \in Sides, active \in BOOLEAN :
       CallSetLiveRemaining(w, b, side, active)
  \/ CallClearLiveRemaining
  \/ StartTickerThread
  \/ ClockAdvance
  \/ TickerExit
  \/ TickerTick
  \/ \E i \in Readers : ReaderReturnsStored(i)
  \/ \E i \in Readers : ReaderRead(i)
  \/ \E i \in Readers : ReaderWrite(i)

SpecClock == InitClock /\ [][NextClock]_vars

\* ------------------------------------------- the state store by itself
\* The functions of game_state.py that replace or update _state and write
\* the state file, called in any order, as run_game (game_loop.py lines 93,
\* 100, 101) and the API's reset (api.py lines 170-181) call them.  The match
\* itself takes no step here.

\* The most calls of _write_state_file followed.
MaxWrites == 3

\* What last_op becomes when the function op is called.
Called(op) ==
  IF last_op = <<>> THEN <<op>> ELSE <<last_op[Len(last_op)], op>>

InitStore ==
  /\ max_retries = 0
  /\ time_per_player_seconds = MaxTime
  /\ resumed = FALSE
  /\ engine = Board(White, <<>>, "ongoing")
  /\ move_history = <<>>
  /\ white_remaining = MaxTime
  /\ black_remaining = MaxTime
  /\ white_has_moved = FALSE
  /\ black_has_moved = FALSE
  /\ state \in PreviousStates
  /\ file = NoFile
  /\ live = LiveInit
  /\ ticker = TickerIdle
  /\ InitLocals
  /\ InitNoReply
  /\ InitNoApi
  /\ InitNoTick

store_fixed == <<config, engine, move_history, clocks, has_moved, pc,
                 turn_locals, result, error, cancel_game_id, accepted_moves,
                 live, live_age, ticker, reader, last_read, parser_vars,
                 api_vars, tick_body>>

\* reset_state (game_state.py lines 379-383)
CallResetState ==
  /\ file.writes < MaxWrites
  /\ state' = ResetState(state)
  /\ \E ok \in WriteOutcomes : file' = WriteStateFile(file, ResetState(state), ok)
  /\ last_op' = Called("reset_state")
  /\ UNCHANGED store_fixed

\* set_state_from_dict (lines 401-405)
CallSetStateFromDict(k) ==
  /\ file.writes < MaxWrites
  /\ state' = FromDict(ResumeDict(k, MaxTime))
  /\ \E ok \in WriteOutcomes :
       file' = WriteStateFile(file, FromDict(ResumeDict(k, MaxTime)), ok)
  /\ last_op' = Called("set_state_from_dict")
  /\ UNCHANGED store_fixed

\* update_state (lines 335-376) with the arguments of a terminal status.
CallUpdateState(winner, reason) ==
  /\ file.writes < MaxWrites
  /\ Publish(TerminalUpdate(winner, reason))
  /\ last_op' = Called("update_state")
  /\ UNCHANGED store_fixed

NextStore ==
  \/ CallResetState
  \/ \E k \in 0..MaxResume : CallSetStateFromDict(k)
  \/ \E winner \in {None, WhiteName}, reason \in {"forfeit", "stopped"} :
       CallUpdateState(winner, reason)

SpecStore == InitStore /\ [][NextStore]_vars

\* ------------------------------------------- parse_llm_response alone
\* parse_llm_response is given a reply text, once or again.  The match
\* takes no step here.
InitParser ==
  /\ max_retries = 0
  /\ time_per_player_seconds = NoNumber
  /\ resumed = FALSE
  /\ engine = Board(White, <<>>, "ongoing")
  /\ move_history = <<>>
  /\ white_remaining = Inf
  /\ black_remaining = Inf
  /\ white_has_moved = FALSE
  /\ black_has_moved = FALSE
  /\ state = FreshState
  /\ file = NoFile
  /\ live = LiveInit
  /\ ticker = TickerIdle
  /\ InitLocals
  /\ reply_text \in ReplyTexts
  /\ parsed_reply = NotParsed
  /\ InitNoApi
  /\ InitNoTick

ParseReply ==
  /\ parsed_reply.calls < MaxParses
  /\ LET r == ParseLlmResponseText(reply_text)
     IN parsed_reply' =
          [calls |-> parsed_reply.calls + 1,
           first |-> IF parsed_reply.calls = 0 THEN r ELSE parsed_reply.first,
           last |-> r]
  /\ UNCHANGED <<reply_text, config, engine, move_history, clocks, has_moved,
                 pc, turn_locals, result, error, state, file, cancel_game_id,
                 accepted_moves, live, live_age, ticker, reader, last_read,
                 last_op, api_vars, tick_body>>

NextParser == ParseReply

SpecParser == InitParser /\ [][NextParser]_vars

\* ------------------------------------------------- the local server
\* POST /api/game/start and POST /api/game/reset (api.py lines 121-181) and
\* the threads that run run_game (lines 80-107).  The threads share
\* game_state's _state, the state file and the cancel flag.  Every match is
\* started without a time limit and with max_retries = MaxRetries, from the
\* standard position.  A thread takes the steps of run_game between the
\* points where it can be overtaken: its set-up, the cancel check when a
\* turn begins and send_prompt, and what follows an agent's reply.
InitApi ==
  /\ max_retries = MaxRetries
  /\ time_per_player_seconds = NoNumber
  /\ resumed = FALSE
  /\ engine = Board(White, <<>>, "ongoing")
  /\ move_history = <<>>
  /\ white_remaining = Inf
  /\ black_remaining = Inf
  /\ white_has_moved = FALSE
  /\ black_has_moved = FALSE
  /\ state = FreshState
  /\ file = NoFile
  /\ live = LiveInit
  /\ ticker = TickerIdle
  /\ InitLocals
  /\ InitNoReply
  /\ InitNoApi
  /\ InitNoTick

api_fixed == <<config, engine, move_history, clocks, has_moved, pc,
               turn_locals, result, error, accepted_moves, live_age, ticker,
               reader, last_read, last_op, parser_vars, tick_body>>

\* A thread that has been started and has not left _run_game_in_thread.
Alive(t) == threads[t].pc \in {"created", "turn", "calling"}

Requested(status, pending) ==
  [requests |-> api.requests + 1, status |-> status, reset_pending |-> pending]

\* api_game_start, lines 140-159: no game is marked as running; the cancel
\* request is cleared and a thread is started.
ApiGameStart(t) ==
  /\ api.requests < MaxRequests
  /\ ~game_running
  /\ threads[t].pc = "none"
  /\ \A u \in ThreadIds : u < t => threads[u].pc # "none"
  /\ game_running' = TRUE
  /\ cancel_game_id' = None
  /\ threads' = [threads EXCEPT ![t] = [NoThread EXCEPT !.pc = "created"]]
  /\ api' = Requested(202, FALSE)
  /\ UNCHANGED <<api_fixed, state, file, live>>

\* api_game_start, lines 140-142: a game is marked as running, 409.
ApiGameStartConflict ==
  /\ api.requests < MaxRequests
  /\ game_running
  /\ api' = Requested(409, api.reset_pending)
  /\ UNCHANGED <<api_fixed, state, file, live, cancel_game_id, game_running,
                 threads>>

\* api_game_reset, lines 170-181.  For the history: the threads that are
\* alive when a cancel is requested are marked.
ApiGameReset ==
  /\ api.requests < MaxRequests
  /\ state' = ResetState(state)
  /\ \E ok \in WriteOutcomes : file' = WriteStateFile(file, ResetState(state), ok)
  /\ IF game_running
     THEN /\ cancel_game_id' = GameId
          /\ game_running' = FALSE
          /\ threads' = [t \in ThreadIds |->
                           IF Alive(t) THEN [threads[t] EXCEPT !.cancelled = TRUE]
                           ELSE threads[t]]
          /\ api' = Requested(200, TRUE)
     ELSE /\ api' = Requested(200, api.reset_pending)
          /\ UNCHANGED <<cancel_game_id, game_running, threads>>
  /\ UNCHANGED <<api_fixed, live>>

\* What run_game publishes first (game_loop.py lines 100-112), after
\* reset_state.
FirstPublished ==
  UpdateState(ResetState(state),
    [fen |-> Board(White, <<>>, "ongoing"), move_history |-> <<>>,
     white_name |-> WhiteName, black_name |-> BlackName,
     is_game_over |-> FALSE, white_remaining_seconds |-> NoNumber,
     black_remaining_seconds |-> NoNumber, white_timer_started |-> FALSE,
     black_timer_started |-> FALSE])

\* _run_game_in_thread lines 88-96 and run_game lines 87-122.
ThreadSetup(t) ==
  /\ threads[t].pc = "created"
  /\ state' = FirstPublished
  /\ \E ok1 \in WriteOutcomes, ok2 \in WriteOutcomes :
       file' = WriteStateFile(WriteStateFile(file, ResetState(state), ok1),
                              FirstPublished, ok2)
  /\ threads' = [threads EXCEPT ![t].pc = "turn"]
  /\ UNCHANGED <<api_fixed, live, cancel_game_id, game_running, api>>

\* run_game lines 124-127, then the finally of _run_game_in_thread (lines
\* 105-107).
ThreadCancelAtTurnStart(t) ==
  /\ threads[t].pc = "turn"
  /\ IsCancelled(GameId)
  /\ live' = ClearLiveRemaining(live)
  /\ threads' = [threads EXCEPT ![t].pc = "ended"]
  /\ game_running' = FALSE
  /\ UNCHANGED <<api_fixed, state, file, cancel_game_id, api>>

\* run_game lines 124-168: no cancel is seen, the turn begins and the agent
\* is called.
ThreadSendPrompt(t) ==
  /\ threads[t].pc = "turn"
  /\ ~IsCancelled(GameId)
  /\ threads' = [threads EXCEPT ![t].pc = "calling",
                                ![t].retries_left = RetriesInit(max_retries)]
  /\ UNCHANGED <<api_fixed, state, file, live, cancel_game_id, game_running,
                 api>>

\* run_game lines 169-176: the cancel flag is set when the reply arrives.
ThreadReplyCancelled(t) ==
  /\ threads[t].pc = "calling"
  /\ IsCancelled(GameId)
  /\ Publish(TerminalUpdate(None, "stopped"))
  /\ live' = ClearLiveRemaining(live)
  /\ threads' = [threads EXCEPT ![t].pc = "ended"]
  /\ game_running' = FALSE
  /\ UNCHANGED <<api_fixed, cancel_game_id, api>>

\* Line 257 on a thread's budget.
RetriesLeftAfter(rl) == IF rl # Inf THEN rl - 1 ELSE rl

\* run_game lines 190-211 and 250-282: the reply is rejected and the agent
\* is called again, or the turn is forfeited (lines 258-268).
ThreadReplyRejected(t) ==
  /\ threads[t].pc = "calling"
  /\ ~IsCancelled(GameId)
  /\ IF BudgetExhausted(RetriesLeftAfter(threads[t].retries_left))
     THEN /\ Publish(TerminalUpdate(BlackName, "forfeit"))
          /\ live' = ClearLiveRemaining(live)
          /\ threads' = [threads EXCEPT ![t].pc = "ended",
                                        ![t].retries_left = 0]
          /\ game_running' = FALSE
     ELSE /\ threads' = [threads EXCEPT
                           ![t].retries_left = RetriesLeftAfter(@)]
          /\ UNCHANGED <<state, file, live, game_running>>
  /\ UNCHANGED <<api_fixed, cancel_game_id, api>>

\* run_game lines 190-214: the engine accepts the move and line 214 raises
\* AttributeError; the thread ends through the finally of lines 105-107.
ThreadReplyAccepted(t) ==
  /\ threads[t].pc = "calling"
  /\ ~IsCancelled(GameId)
  /\ threads' = [threads EXCEPT ![t].pc = "ended",
                                ![t].applied = @ + 1]
  /\ game_running' = FALSE
  /\ UNCHANGED <<api_fixed, state, file, live, cancel_game_id, api>>

NextApi ==
  \/ \E t \in ThreadIds : ApiGameStart(t)
  \/ ApiGameStartConflict
  \/ ApiGameReset
  \/ \E t \in ThreadIds : ThreadSetup(t)
  \/ \E t \in ThreadIds : ThreadCancelAtTurnStart(t)
  \/ \E t \in ThreadIds : ThreadSendPrompt(t)
  \/ \E t \in ThreadIds : ThreadReplyCancelled(t)
  \/ \E t \in ThreadIds : ThreadReplyRejected(t)
  \/ \E t \in ThreadIds : ThreadReplyAccepted(t)

SpecApi == InitApi /\ [][NextApi]_vars

\* ------------------------------------- the clock seen by the observers
\* A match is under way (set up as run_game sets up a resumed match) and
\* the observers of its clock act: the ticker thread, the threads serving
\* the local /api/tick, and the Lambda handler of GET /api/tick
\* (src/deploy/lambda/api_tick/handler.py), which reads the persisted record.
\* run_game is seen only through clear_live_remaining.

\* Lines 53-60 of the handler: the record read from the store, {} when it
\* cannot be read; a remaining time below zero is None.
TickStored ==
  IF file.present THEN file.data ELSE FreshState

\* Lines 65-88 of the handler: the remaining times it answers, elapsed
\* seconds after last_timer_update_utc (written with every record that
\* holds a remaining time, game_state.py lines 269-274).
TickAdvanced(d, elapsed) ==
  LET side_started == (d.fen.turn = White /\ d.white_timer_started)
                      \/ (d.fen.turn = Black /\ d.black_timer_started)
      wr == d.white_remaining_seconds
      br == d.black_remaining_seconds
  IN [white |-> IF wr = NoNumber THEN NoNumber
                ELSE IF side_started /\ d.fen.turn = White
                THEN Max0(wr - elapsed) ELSE Max0(wr),
      black |-> IF br = NoNumber THEN NoNumber
                ELSE IF side_started /\ d.fen.turn = Black
                THEN Max0(br - elapsed) ELSE Max0(br)]

\* Lines 52-109 of the handler: the body it answers.
TickBody(d, elapsed) ==
  LET wr0 == IF d.white_remaining_seconds < 0 THEN NoNumber
             ELSE d.white_remaining_seconds
      br0 == IF d.black_remaining_seconds < 0 THEN NoNumber
             ELSE d.black_remaining_seconds
      d0 == [d EXCEPT !.white_remaining_seconds = wr0,
                      !.black_remaining_seconds = br0]
      counts == ~d.is_game_over /\ (wr0 # NoNumber \/ br0 # NoNumber)
      adv == IF counts THEN TickAdvanced(d0, elapsed)
             ELSE [white |-> wr0, black |-> br0]
      white_out == counts /\ adv.white # NoNumber /\ adv.white <= 0
      black_out == counts /\ ~white_out /\ adv.black # NoNumber /\ adv.black <= 0
      over == d.is_game_over \/ white_out \/ black_out
  IN [called |-> TRUE,
      whiteRemainingSeconds |-> adv.white,
      blackRemainingSeconds |-> adv.black,
      isGameOver |-> over,
      terminationReason |->
        IF ~over THEN None
        ELSE IF white_out \/ black_out THEN "time" ELSE d.termination_reason,
      winner |->
        IF ~over THEN None
        ELSE IF white_out
        THEN (IF d.black_name # None THEN d.black_name ELSE Black)
        ELSE IF black_out
        THEN (IF d.white_name # None THEN d.white_name ELSE White)
        ELSE d.winner]

\* Variant of LambdaApiTick: the handler stores the terminal status it
\* answers.
LambdaApiTickPersists ==
  \E elapsed \in 0..MaxAge :
    LET body == TickBody(TickStored, elapsed)
    IN /\ tick_body' = body
       /\ IF body.isGameOver /\ ~TickStored.is_game_over
          THEN Publish(TerminalUpdate(body.winner, body.terminationReason))
          ELSE UNCHANGED <<state, file>>
       /\ UNCHANGED <<config, engine, move_history, clocks, has_moved, pc,
                      turn_locals, result, error, cancel_game_id,
                      accepted_moves, live, live_age, ticker, reader,
                      last_read, last_op, parser_vars, api_vars>>

\* GET /api/tick on Lambda, elapsed seconds after the record was written.
LambdaApiTick ==
  \E elapsed \in 0..MaxAge :
    /\ tick_body' = TickBody(TickStored, elapsed)
    /\ UNCHANGED <<config, engine, move_history, clocks, has_moved, pc,
                   turn_locals, result, error, state, file, cancel_game_id,
                   accepted_moves, live, live_age, ticker, reader,
                   last_read, last_op, parser_vars, api_vars>>

NextTick ==
  \/ CallClearLiveRemaining
  \/ ClockAdvance
  \/ TickerExit
  \/ TickerTick
  \/ \E i \in Readers : ReaderReturnsStored(i)
  \/ \E i \in Readers : ReaderRead(i)
  \/ \E i \in Readers : ReaderWrite(i)
  \/ LambdaApiTick

SpecTick == InitResumed /\ [][NextTick]_vars

\* ------------------------------ run_game left alone in a timed match
\* Lines 87-122 with time_per_player_seconds > 0 and no cancel request.
InitLive ==
  /\ Init
  /\ UseTimer(time_per_player_seconds)
  /\ ~IsCancelled(GameId)

\* A turn that goes on past MaxAttempts - 1 rejections keeps the latest
\* entries of its lists: the loop's tests (lines 153, 157-160, 171, 181-188,
\* 257-258) read none of the entries.
KeepLatest(seq) == IF Len(seq) > MaxAttempts - 1 THEN Tail(seq) ELSE seq

\* Line 168 returns: the call took at least one second.
CallReturned == pc = "calling" /\ call_elapsed > 0

LiveReplyTimeExpired == CallReturned /\ \E r \in Replies : ReplyTimeExpired(r)
LiveReplyForfeit == CallReturned /\ \E r \in Replies : ReplyForfeit(r)
LiveReplyAccepted == CallReturned /\ \E r \in Replies : ReplyAccepted(r)

\* Lines 250-258 and 270-282, as ReplyRejected.
LiveReplyRejected ==
  /\ CallReturned
  /\ \E r \in Replies :
       /\ conversation' = KeepLatest(Append(conversation, Exchange(r)))
       /\ ~IsCancelled(GameId)
       /\ ~ExpiresOnReturn
       /\ ~MoveAttempt(r).success
       /\ ~BudgetExhausted(RetriesAfterReject)
       /\ white_remaining' = ClocksAfterCall.white
       /\ black_remaining' = ClocksAfterCall.black
       /\ result' = [result EXCEPT
                       !.forfeit_attempts = KeepLatest(AttemptsAfterReject(r))]
       /\ rejected_moves_this_turn' = KeepLatest(RejectedAfterReject(r))
       /\ retries_left' = RetriesAfterReject
       /\ request' = RetryRequest(MoveAttempt(r).error_message,
                                  MoveAttempt(r).previous_attempt,
                                  MoveAttempt(r).is_parse_error,
                                  KeepLatest(RejectedAfterReject(r)))
       /\ pc' = "attempt"
  /\ UNCHANGED <<config, observers, engine, move_history, has_moved, is_white,
                 is_first_move, call_elapsed, error, state, file, live,
                 cancel_game_id, accepted_moves>>

NextLive ==
  \/ GameOver
  \/ StartTurn
  \/ SendPrompt
  \/ Tick
  \/ LiveReplyTimeExpired
  \/ LiveReplyRejected
  \/ LiveReplyForfeit
  \/ LiveReplyAccepted

\* run_game is one sequential loop: a step that can be taken is taken.
SpecLive == InitLive /\ [][NextLive]_vars /\ WF_vars(NextLive)

\* ------------------------------------------------------- properties
Remaining(s) == IF s = White THEN white_remaining ELSE black_remaining
InitialRemaining ==
  IF time_per_player_seconds # NoNumber /\ time_per_player_seconds > 0
  THEN time_per_player_seconds ELSE Inf

\* A side has completed a move of the match: only the moves a resumed match
\* starts with count, since no move is appended during the run.
HasCompletedMove(s) ==
  Len(move_history) >= (IF s = White THEN 1 ELSE 2)

LastReply == conversation[Len(conversation)].response

\* C1: with max_retries = R > 0, once the side to move has R rejected
\* attempts in the turn the match has ended as a forfeit: run_game has
\* returned (no further agent call), the result and the published state say
\* "forfeit" with game over, the loser is the moving side and the winner is
\* the opposing side, never nobody.
C1_ForfeitWhenBudgetUsed ==
  (max_retries > 0 /\ Len(result.forfeit_attempts) >= max_retries) =>
    /\ pc = "done"
    /\ result.termination_reason = "forfeit"
    /\ result.forfeit_by = NameOf(Mover)
    /\ result.loser_name = NameOf(Mover)
    /\ result.winner_name = NameOf(OtherSide(Mover))
    /\ state.is_game_over
    /\ state.termination_reason = "forfeit"
    /\ state.winner = NameOf(OtherSide(Mover))

C1_Witness ==
  /\ max_retries = 2
  /\ Len(result.forfeit_attempts) = 2
  /\ ~is_white
  /\ state.winner = WhiteName

\* C2: in a turn with fewer than max_retries rejected attempts, a move the
\* rules engine accepts is appended exactly once to move_history and to
\* move_log, nothing is appended for the rejected attempts, no forfeit is
\* recorded and the match goes on with the other side to move.
C2_AcceptedMoveAppended ==
  (/\ max_retries > 0
   /\ Len(result.forfeit_attempts) < max_retries
   /\ accepted_moves > 0) =>
    /\ move_history = engine.moves
    /\ state.move_history = move_history
    /\ Len(state.move_log) = Len(move_history)
    /\ state.fen = engine
    /\ result.termination_reason # "forfeit"
    /\ error = None

\* C3: with max_retries = 0 no number of rejected attempts makes a forfeit:
\* neither the result nor the published state says "forfeit", and after
\* every rejected attempt the turn has budget for another request.
C3_UnlimitedNeverForfeits ==
  max_retries = 0 =>
    /\ result.termination_reason # "forfeit"
    /\ state.termination_reason # "forfeit"
    /\ (pc = "attempt" => retries_left > 0)

C3_Witness ==
  /\ max_retries = 0
  /\ pc = "attempt"
  /\ Len(result.forfeit_attempts) >= 3

C5_LogAsLongAsHistory ==
  /\ Len(state.move_log) = Len(state.move_history)
  /\ file.present => Len(file.data.move_log) = Len(file.data.move_history)

C5_Witness ==
  /\ state.is_game_over
  /\ Len(state.move_history) = 2
  /\ file.present
  /\ file.data = state

\* C6: in every published state a termination reason is present if and only
\* if is_game_over is true.
C6_OutcomeIffGameOver ==
  /\ state.is_game_over <=> state.termination_reason # None
  /\ file.present =>
       (file.data.is_game_over <=> file.data.termination_reason # None)

C6_Witness ==
  /\ state.is_game_over
  /\ state.termination_reason = "time"
  /\ file.present
  /\ ~file.data.is_game_over

\* C7: no time is taken from a side that has not completed its first move,
\* however long its calls take; such a side does not lose on time; and in a
\* match without a time limit nothing is ever deducted.
C7_FirstMoveExempt ==
  /\ \A s \in Sides : ~HasCompletedMove(s) => Remaining(s) = InitialRemaining
  /\ \A s \in Sides :
       (result.termination_reason = "time" /\ result.loser_name = NameOf(s))
         => HasCompletedMove(s)
  /\ InitialRemaining = Inf =>
       /\ white_remaining = Inf
       /\ black_remaining = Inf
       /\ result.termination_reason # "time"

C7_Witness ==
  /\ InitialRemaining # Inf
  /\ pc = "attempt"
  /\ Len(conversation) >= 1
  /\ ~HasCompletedMove(Mover)
  /\ call_elapsed > time_per_player_seconds
  /\ Remaining(Mover) = time_per_player_seconds

\* C8: with a clock of 1 second, after White's first call took 5 seconds and
\* gave an accepted move, the match stops only as TimeExpired with Black the
\* loser and White the winner.
C8_BlackLosesOnTime ==
  (/\ time_per_player_seconds = 1
   /\ move_history = <<>>
   /\ is_white
   /\ Len(conversation) = 1
   /\ call_elapsed = 5
   /\ accepted_moves = 1
   /\ pc \in {"done", "raised"}) =>
    /\ result.termination_reason = "time"
    /\ result.loser_name = BlackName
    /\ result.winner_name = WhiteName

\* C9: when the clock of the side to move is live and a call brings its
\* remaining time to zero or below, the match has ended as TimeExpired with
\* that side the loser and the other side the winner, and the move in the
\* reply is not applied: the position, move_history and move_log are as
\* published before the call.
C9_TimeExpiredOnReturn ==
  /\ (InitialRemaining # Inf /\ ~is_first_move /\ Remaining(Mover) <= 0) =>
       /\ pc = "done"
       /\ result.termination_reason = "time"
       /\ result.loser_name = NameOf(Mover)
       /\ result.winner_name = NameOf(OtherSide(Mover))
       /\ state.is_game_over
       /\ state.termination_reason = "time"
       /\ state.winner = NameOf(OtherSide(Mover))
  /\ result.termination_reason = "time" =>
       /\ accepted_moves = 0
       /\ engine = state.fen
       /\ move_history = state.move_history
       /\ result.move_history = move_history
       /\ Len(state.move_log) = Len(move_history)

C9_Witness ==
  /\ result.termination_reason = "time"
  /\ is_white
  /\ Len(move_history) = 2
  /\ LastReply = ReplyQuiet
  /\ white_remaining < 0

\* C10: in every step of a turn only the remaining time of the side to move
\* can change; the opponent's remaining time stays what it was.
C10_OpponentClockFrozen ==
  [][IF pc = "turn"
     THEN white_remaining' = white_remaining /\ black_remaining' = black_remaining
     ELSE Remaining(OtherSide(Mover))' = Remaining(OtherSide(Mover))]_vars

C10_Witness ==
  /\ pc = "attempt"
  /\ InitialRemaining # Inf
  /\ Remaining(Mover) < InitialRemaining
  /\ Remaining(OtherSide(Mover)) = InitialRemaining

\* C11: while the clock is live, of two consecutive reads of one client
\* through get_live_remaining with no set_live_remaining in between the
\* later one returns, for each side, no more than the earlier one; and no
\* read returns a value below zero.
C11_ReadsNeverIncrease ==
  /\ [](last_read.white >= 0 /\ last_read.black >= 0)
  /\ [][(/\ live.last_update_set
          /\ live.timer_active
          /\ last_read.valid
          /\ reader[Poller].pc = "computed"
          /\ reader'[Poller].pc = "idle"
          /\ last_read'.valid) =>
          /\ last_read'.white <= last_read.white
          /\ last_read'.black <= last_read.black]_vars

\* C26: the values set_live_remaining stored are not overwritten by a
\* get_live_remaining that read the tuple before that call.
C26_SetNotOverwritten ==
  [][\A i \in Readers :
       (reader[i].pc = "overtaken" /\ reader'[i].pc = "idle") =>
         /\ live'.white = live.white
         /\ live'.black = live.black]_vars

\* C12: when the cancel flag is set as a turn begins, run_game makes no
\* agent call, the published state says game over with reason "stopped", and
\* the position, move_history, move_log and the names are as they were.
C12_CancelAtTurnStartRecorded ==
  (/\ pc = "done"
   /\ IsCancelled(GameId)
   /\ conversation = <<>>
   /\ ~EngineIsGameOver(engine)) =>
    /\ state.is_game_over
    /\ state.termination_reason = "stopped"
    /\ state.fen = engine
    /\ state.move_history = move_history
    /\ Len(state.move_log) = Len(move_history)
    /\ state.white_name = WhiteName
    /\ state.black_name = BlackName

\* C13: when the cancel flag is set as an agent call returns, the reply is
\* dropped: it is not parsed or applied and is not counted as a rejected
\* attempt; the match ends as "stopped" with no winner, and the position,
\* move_history and move_log keep the moves applied before.
C13_ReplyDroppedOnCancel ==
  [][(pc = "calling" /\ IsCancelled(GameId) /\ conversation' # conversation) =>
       /\ pc' = "done"
       /\ result'.termination_reason = "stopped"
       /\ result'.winner_name = None
       /\ result'.loser_name = None
       /\ result'.forfeit_attempts = result.forfeit_attempts
       /\ result'.move_history = move_history
       /\ retries_left' = retries_left
       /\ rejected_moves_this_turn' = rejected_moves_this_turn
       /\ accepted_moves' = accepted_moves
       /\ engine' = engine
       /\ move_history' = move_history
       /\ state'.is_game_over
       /\ state'.termination_reason = "stopped"
       /\ state'.winner = None
       /\ state'.fen = state.fen
       /\ state'.move_history = state.move_history
       /\ state'.move_log = state.move_log]_vars

C13_Witness ==
  /\ result.termination_reason = "stopped"
  /\ Len(move_history) = 2
  /\ Len(state.move_log) = 2
  /\ Len(result.forfeit_attempts) = 1
  /\ Len(conversation) = 2
  /\ LastReply = ReplyQuiet

\* C14: once the match has a terminal status run_game has returned, with the
\* live clock stopped (has_live_remaining is false); and after run_game has
\* returned no step of it follows: no agent call, no move.
C14_TerminalStops ==
  /\ [](result.termination_reason # None \/ state.is_game_over =>
          pc = "done" /\ ~HasLiveRemaining)
  /\ [](pc = "done" => ~HasLiveRemaining)
  /\ [][pc # "done"]_vars

C14_Witness ==
  /\ pc = "done"
  /\ result.termination_reason = "forfeit"
  /\ live.game_id = GameId
  /\ live.timer_active
  /\ ~HasLiveRemaining

\* C15: when an agent call raises, the exception leaves run_game: nothing
\* follows it, the call is not repeated, and the retry budget, the rejected
\* attempts, the conversation and the published state are as before the
\* call.  A retry request is made only after a reply that was rejected.
C15_GatewayFailurePropagates ==
  [][/\ (pc = "calling" /\ pc' # "calling" /\ conversation' = conversation) =>
          /\ pc' = "raised"
          /\ error' = "GatewayFailure"
          /\ retries_left' = retries_left
          /\ result' = result
          /\ rejected_moves_this_turn' = rejected_moves_this_turn
          /\ request' = request
          /\ state' = state
          /\ engine' = engine
     /\ pc # "raised"
     /\ (request' # request /\ request'.is_retry) =>
          /\ Len(conversation') = Len(conversation) + 1
          /\ Len(result'.forfeit_attempts) = Len(result.forfeit_attempts) + 1
          /\ ~MoveAttempt(conversation'[Len(conversation')].response).success]_vars

C15_Witness ==
  /\ pc = "raised"
  /\ error = "GatewayFailure"
  /\ max_retries = 2
  /\ retries_left = 1
  /\ Len(result.forfeit_attempts) = 1

\* C16: the state file is written after every state-changing step of the
\* turn loop: after an applied move, after a rejected attempt that leads to a
\* retry request, and when run_game returns with a terminal status.
C16_WriteAfterEveryStep ==
  [][/\ accepted_moves' > accepted_moves => file'.writes > file.writes
     /\ (pc = "calling" /\ pc' = "attempt") => file'.writes > file.writes
     /\ (pc # "done" /\ pc' = "done") => file'.writes > file.writes]_vars

\* C17: a write of the state file that fails raises nothing and leaves the
\* file with what it held before; a write that succeeds leaves it with the
\* whole current state.
C17_FailedWriteKeepsRecord ==
  [][file'.writes > file.writes =>
       \/ /\ file'.failures = file.failures
          /\ file'.present
          /\ file'.data = state'
       \/ /\ file'.failures > file.failures
          /\ file'.present = file.present
          /\ file'.data = file.data]_vars

\* C19: the cancel signal is kept per match identifier: a request for one
\* identifier neither sets nor removes the signal of another, and a second
\* request for the same identifier changes nothing.
C19_CancelKeyedByMatch ==
  [][\A g \in GameIds :
       /\ IsCancelled(g) => IsCancelled(g)'
       /\ (~IsCancelled(g) /\ IsCancelled(g)') => cancel_game_id' = g]_vars

\* C20: when the engine accepts a move after rejected attempts of the same
\* turn, the list of the turn's rejected attempts (forfeit_attempts) is
\* empty from then on.
C20_AttemptsClearedOnSuccess ==
  accepted_moves > 0 => result.forfeit_attempts = <<>>

\* C18: reset_state gives the default state whatever the state before: no
\* moves, no log, not game over, no winner, no termination reason, no
\* remaining times, no clock started; and a second reset_state right after
\* the first leaves the state as the first left it.
C18_ResetIdempotent ==
  /\ [](last_op # <<>> /\ last_op[Len(last_op)] = "reset_state" =>
          /\ state.move_history = <<>>
          /\ state.move_log = <<>>
          /\ ~state.is_game_over
          /\ state.winner = None
          /\ state.termination_reason = None
          /\ state.white_remaining_seconds = NoNumber
          /\ state.black_remaining_seconds = NoNumber
          /\ ~state.white_timer_started
          /\ ~state.black_timer_started)
  /\ [][(/\ last_op # <<>>
         /\ last_op[Len(last_op)] = "reset_state"
         /\ last_op' = <<"reset_state", "reset_state">>) => state' = state]_vars

C18_Witness ==
  /\ last_op = <<"reset_state", "reset_state">>
  /\ file.writes = 3
  /\ file.present
  /\ file.data # state

\* C21: when the match ends by forfeit, forfeit_attempts holds the rejected
\* attempts of the forfeiting turn and nothing else: max_retries entries, the
\* i-th being the request, the raw reply and the rejection reason of the
\* turn's i-th agent call.
C21_ForfeitAttemptsOfTheTurn ==
  result.termination_reason = "forfeit" =>
    /\ Len(result.forfeit_attempts) = max_retries
    /\ Len(conversation) = max_retries
    /\ \A i \in 1..Len(result.forfeit_attempts) :
         LET a == result.forfeit_attempts[i]
             m == MoveAttempt(conversation[i].response)
         IN /\ a.prompt = conversation[i].prompt
            /\ a.response = conversation[i].response
            /\ ~m.success
            /\ a.reason = m.error_message

C21_Witness ==
  /\ result.termination_reason = "forfeit"
  /\ max_retries = 2
  /\ Len(move_history) = 2
  /\ result.forfeit_attempts[1].response = ReplyProse
  /\ result.forfeit_attempts[2].response = ReplyIllegal
  /\ result.forfeit_attempts[1].prompt # result.forfeit_attempts[2].prompt

\* C22: when a move the engine accepted ends the game, run_game returns with
\* the match published as game over, with the engine's termination reason
\* and the agent of the winning colour as winner (nobody for a draw).
C22_GameEndingMoveRecorded ==
  (/\ accepted_moves > 0
   /\ EngineIsGameOver(engine)
   /\ pc \in {"done", "raised"}) =>
    /\ pc = "done"
    /\ state.is_game_over
    /\ state.termination_reason = EngineOutcome(engine).termination
    /\ state.winner = IF EngineOutcome(engine).winner = None THEN None
                      ELSE NameOf(EngineOutcome(engine).winner)
    /\ result.termination_reason = EngineOutcome(engine).termination

\* C23: with time_per_player_seconds None or 0 the clock plays no part: both
\* clocks stay unlimited, the match never ends on time, the live clock is
\* never set, the ticker thread is never started, and the published
\* remaining times stay None.
C23_NoLimitNoClock ==
  (time_per_player_seconds = NoNumber \/ time_per_player_seconds = 0) =>
    /\ white_remaining = Inf
    /\ black_remaining = Inf
    /\ result.termination_reason # "time"
    /\ state.termination_reason # "time"
    /\ live = LiveInit
    /\ ticker.pc = "idle"
    /\ state.white_remaining_seconds = NoNumber
    /\ state.black_remaining_seconds = NoNumber
    /\ file.present => /\ file.data.white_remaining_seconds = NoNumber
                       /\ file.data.black_remaining_seconds = NoNumber

C23_Witness ==
  /\ time_per_player_seconds = 0
  /\ pc = "done"
  /\ result.termination_reason = "forfeit"
  /\ call_elapsed = MaxElapsed
  /\ Len(move_history) = 2
  /\ file.present
  /\ file.data = state

\* A text without its spaces: for a single word, the word without the
\* spaces around it.
Unpadded(s) == SelectSeq(s, LAMBDA c : c # " ")

\* The letter-O form of a castling move written with zeros.
LetterO(w) ==
  IF w = <<"0", "-", "0">> THEN <<"O", "-", "O">> ELSE w

\* The move texts the rules engine accepts in some position, once stripped
\* (chess_engine.py line 72): e4, d4, and castling written either way.
AcceptedMoveTexts == {<<"e", "4">>, <<"d", "4">>, <<"0", "-", "0">>}

\* The reply is one structured payload {"move": m, "explanation": e}, bare
\* or in a code block, with an accepted move text, and has been parsed.
StructuredPayloadParsed ==
  /\ parsed_reply.calls >= 1
  /\ Len(reply_text) = 1
  /\ reply_text[1].kind \in {"object", "fenced"}
  /\ Unpadded(reply_text[1].move) \in AcceptedMoveTexts

MoveFieldOccurrences ==
  SelectSeq(reply_text, LAMBDA g : g.kind \in {"object", "fenced", "field"}
                                   /\ Len(g.move) >= 1)

C27_CancelledLoopStops ==
  [][\A t \in ThreadIds :
       (/\ threads[t].cancelled
        /\ threads[t].pc \in {"turn", "calling"}
        /\ threads'[t] # threads[t]) =>
         /\ threads'[t].pc = "ended"
         /\ threads'[t].applied = threads[t].applied]_vars

\* C28: at most one thread is inside _run_game_in_thread at any time.
C28_OneGameThread ==
  Cardinality({t \in ThreadIds : Alive(t)}) <= 1

\* C29: after a reset that found a game running, the published state is the
\* default state until the next game is started.
C29_FreshUntilNextStart ==
  api.reset_pending => state = FreshState

\* C30: the published state only moves forward: when the engine accepts a
\* move, move_history grows by that one move; otherwise it stays as it is;
\* the names do not change; and a game that is over stays over.
C30_PublishedMovesForward ==
  [][
      /\ (accepted_moves' > accepted_moves) =>
           (/\ Len(state'.move_history) = Len(state.move_history) + 1
            /\ SubSeq(state'.move_history, 1, Len(state.move_history))
                 = state.move_history)
      /\ (accepted_moves' = accepted_moves) =>
           (state'.move_history = state.move_history)
      /\ state'.white_name = state.white_name
      /\ state'.black_name = state.black_name
      /\ (state.is_game_over => state'.is_game_over)
    ]_vars

\* The published started flag of a side.
StartedFlag(st, s) ==
  IF s = White THEN st.white_timer_started ELSE st.black_timer_started

\* C31: in a timed match the published started flag of a side is true in the
\* state published when the engine accepts that side's first move, and once
\* true it does not return to false.
C31_StartedFlagFollowsFirstMove ==
  [][UseTimer(time_per_player_seconds) =>
       (/\ (accepted_moves' > accepted_moves /\ is_first_move) =>
             StartedFlag(state', Mover)
        /\ \A s \in Sides : StartedFlag(state, s) => StartedFlag(state', s))]_vars

\* C32: while the live clock is running and active, a call of
\* tick_live_remaining by the ticker deducts the time since the last update
\* from the side to move (floored at zero), leaves the other side as it is
\* and moves the last-update time to now.
C32_TickDeductsElapsed ==
  [][(/\ ticker.pc = "sleeping"
      /\ ticker' # ticker
      /\ ticker'.pc = "sleeping"
      /\ HasLiveRemaining
      /\ live.timer_active) =>
       (/\ live'.white = Advanced(live, live_age).white
        /\ live'.black = Advanced(live, live_age).black
        /\ live_age' = 0)]_vars

\* C33: an advancement of the live clock - a tick of the ticker thread, a
\* read through get_live_remaining, or an answer of the Lambda api_tick
\* handler - leaves the match state and the persisted record as they are.
C33_AdvanceLeavesRecord ==
  [][(\/ ticker' # ticker
      \/ reader' # reader
      \/ last_read' # last_read
      \/ tick_body' # tick_body) =>
       (state' = state /\ file' = file)]_vars

C33_Witness ==
  /\ tick_body.called
  /\ tick_body.isGameOver
  /\ tick_body.terminationReason = "time"
  /\ file.present
  /\ ~file.data.is_game_over
  /\ ticker.error = "UnboundLocalError"
  /\ last_read.valid
  /\ last_read.white < file.data.white_remaining_seconds
  /\ live.white < state.white_remaining_seconds

\* C34: on every return of run_game the GameResult's move_history is the
\* sequence of the moves of the match.
C34_ResultHoldsTheMoves ==
  pc = "done" => result.move_history = move_history

\* C35: when the cancel flag is set as an agent call returns (the call does
\* not raise), the match
\* ends as stopped with no winner and no time is deducted, also when the
\* call's elapsed time would have used up the moving side's clock.
C35_CancelBeforeClock ==
  [][(pc = "calling" /\ IsCancelled(GameId) /\ pc' # pc /\ pc' # "raised") =>
       (/\ pc' = "done"
        /\ result'.termination_reason = "stopped"
        /\ result'.winner_name = None
        /\ state'.is_game_over
        /\ state'.termination_reason = "stopped"
        /\ white_remaining' = white_remaining
        /\ black_remaining' = black_remaining)]_vars

C35_Witness ==
  /\ pc = "done"
  /\ result.termination_reason = "stopped"
  /\ IsCancelled(GameId)
  /\ ShouldTime(time_per_player_seconds, is_first_move)
  /\ MoverRemaining > 0
  /\ call_elapsed >= MoverRemaining

\* C36: the GameResult returned for a match that was cancelled after an
\* agent call has an empty forfeit_attempts list.
C36_CancelDropsAttempts ==
  (pc = "done" /\ result.termination_reason = "stopped") =>
    result.forfeit_attempts = <<>>

\* The move texts found in the replies of a turn's conversation, in the
\* order the replies came: the texts the engine was asked to apply.
RECURSIVE MoveTextsTried(_)
MoveTextsTried(conv) ==
  IF conv = <<>> THEN <<>>
  ELSE LET front == SubSeq(conv, 1, Len(conv) - 1)
           move  == ParseLlmResponse(conv[Len(conv)].response).move
       IN IF move = None THEN MoveTextsTried(front)
          ELSE Append(MoveTextsTried(front), move)

\* C37: a retry request carries the error message of the latest rejection
\* and every move text rejected as illegal so far in the turn, in the order
\* tried; the first request of a turn carries none.
C37_RetryCarriesRejections ==
  pc = "attempt" =>
    IF request.is_retry
    THEN /\ request.error_message =
              MoveAttempt(conversation[Len(conversation)].response).error_message
         /\ request.rejected_moves = MoveTextsTried(conversation)
    ELSE rejected_moves_this_turn = <<>>

\* C39: once run_game has stopped in a timed match, by returning a result
\* or by an exception of the agent call, the live clock is stopped.
C39_StoppedMatchStopsClock ==
  (UseTimer(time_per_player_seconds) /\ pc \in {"done", "raised"}) =>
    ~HasLiveRemaining

\* C38: a timed match that is not cancelled and whose agent calls all
\* return after a positive time reaches a terminal status, whatever the
\* retry setting, also when every reply of the agents is rejected.  (A run
\* in which a reply is accepted stops with the exception of line 214.)
C38_TimedMatchEnds == [](accepted_moves = 0) => <>(pc = "done")

====
